---- MODULE Spec2Model ----
(***************************************************************************)
(* Model of src/main.py: a FastAPI service with five handlers over the     *)
(* module-level list `users`.                                              *)
(*                                                                         *)
(* Two specifications:                                                     *)
(*   Spec      - requests served one at a time; every handler is one       *)
(*               action (the whole function body).                         *)
(*   SpecConc  - handlers run on threads of the worker pool and interleave *)
(*               between the interpreter's steps (attribute loads, loop    *)
(*               iterations, stores), over an explicit heap of list and    *)
(*               User objects.                                             *)
(***************************************************************************)
EXTENDS Integers, Sequences, FiniteSets, TLC

\* ---------------------------------------------------------------- bounds
\* Longest list the sequential specification lets `users` grow to.
MaxLen == 3
\* Worker threads serving requests at the same time (SpecConc).
NThreads == 2
\* Longest list the threads of SpecConc may find when they start.
MaxInitLen == 1

\* Values the fields of a request body and the path parameter are drawn from.
Ids == {1, 2}
Names == {"Alice", "Bob"}
Ages == {20, 30}

\* class User(BaseModel): id: int, name: str, age: int
User == [id : Ids, name : Names, age : Ages]

\* return {"error": "User not found"}
NotFound == [error |-> "User not found"]

\* return {"message": "User deleted"}
Deleted == [message |-> "User deleted"]

\* ------------------------------------------------------------ vocabulary
\* Some element of us has id i.
HasId(us, i) == \E k \in 1..Len(us) : us[k].id = i

\* v has the shape of a User.
IsRecord(v) == DOMAIN v = {"id", "name", "age"}

\* ------------------------------------------------------- handler bodies
\* Each handler is a function of the list it finds and its arguments; the
\* result is the list it leaves bound to `users` and the value it returns.

\* Variant: a create that turns away an id already in the list.
create_user_unique(us, user) ==
    IF HasId(us, user.id) THEN [users |-> us, ret |-> user]
    ELSE [users |-> Append(us, user), ret |-> user]

\* users.append(user); return user
create_user(us, user) ==
    [users |-> Append(us, user), ret |-> user]

\* Variant: the list handed out newest first.
read_users_reversed(us) ==
    [users |-> us, ret |-> [k \in 1..Len(us) |-> us[Len(us) + 1 - k]]]

\* return users
read_users(us) ==
    [users |-> us, ret |-> us]

\* for user in users: if user.id == user_id: <position of that user>
\* k is the position the loop is at; 0 when the loop ends without a match.
RECURSIVE scan(_, _, _)
scan(us, user_id, k) ==
    IF k > Len(us) THEN 0
    ELSE IF us[k].id = user_id THEN k
    ELSE scan(us, user_id, k + 1)

\* Variant: the loop keeps going and the latest match wins.
read_user_last_match(us, user_id) ==
    LET m == {k \in 1..Len(us) : us[k].id = user_id} IN
    IF m # {} THEN [users |-> us, ret |-> us[CHOOSE k \in m : \A j \in m : j <= k]]
    ELSE [users |-> us, ret |-> NotFound]

\* Variant: after the loop the loop variable is returned (`return user`).
read_user_loop_variable(us, user_id) ==
    LET k == scan(us, user_id, 1) IN
    IF k # 0 THEN [users |-> us, ret |-> us[k]]
    ELSE IF us # <<>> THEN [users |-> us, ret |-> us[Len(us)]]
    ELSE [users |-> us, ret |-> NotFound]

\* Variant: the loop stops one element short of the end of the list.
read_user_short(us, user_id) ==
    LET k == scan(SubSeq(us, 1, Len(us) - 1), user_id, 1) IN
    IF k # 0 THEN [users |-> us, ret |-> us[k]]
    ELSE [users |-> us, ret |-> NotFound]

\* for user in users: if user.id == user_id: return user
\* return {"error": "User not found"}
read_user(us, user_id) ==
    LET k == scan(us, user_id, 1) IN
    IF k # 0 THEN [users |-> us, ret |-> us[k]]
    ELSE [users |-> us, ret |-> NotFound]

\* Variant: the matched element is replaced by the body, id included.
update_user_replace(us, user_id, updated_user) ==
    LET k == scan(us, user_id, 1) IN
    IF k # 0
    THEN [users |-> [us EXCEPT ![k] = updated_user], ret |-> updated_user]
    ELSE [users |-> us, ret |-> NotFound]

\* Variant: an update of an id that is not there stores the body under it.
update_user_upsert(us, user_id, updated_user) ==
    LET k == scan(us, user_id, 1) IN
    IF k # 0
    THEN LET new == [us EXCEPT ![k].name = updated_user.name,
                               ![k].age = updated_user.age]
         IN [users |-> new, ret |-> new[k]]
    ELSE LET u == [updated_user EXCEPT !.id = user_id]
         IN [users |-> Append(us, u), ret |-> u]

\* for user in users: if user.id == user_id:
\*     user.name = updated_user.name; user.age = updated_user.age; return user
\* return {"error": "User not found"}
update_user(us, user_id, updated_user) ==
    LET k == scan(us, user_id, 1) IN
    IF k # 0
    THEN LET new == [us EXCEPT ![k].name = updated_user.name,
                               ![k].age = updated_user.age]
         IN [users |-> new, ret |-> new[k]]
    ELSE [users |-> us, ret |-> NotFound]

\* [user for user in users if user.id != user_id]
RECURSIVE comprehension(_, _)
comprehension(us, user_id) ==
    IF us = <<>> THEN <<>>
    ELSE IF Head(us).id # user_id
         THEN <<Head(us)>> \o comprehension(Tail(us), user_id)
         ELSE comprehension(Tail(us), user_id)

\* Variant: only the first element with the id is removed.
delete_user_first(us, user_id) ==
    LET k == scan(us, user_id, 1) IN
    IF k # 0
    THEN [users |-> SubSeq(us, 1, k - 1) \o SubSeq(us, k + 1, Len(us)),
          ret |-> Deleted]
    ELSE [users |-> us, ret |-> Deleted]

\* Variant: deleting an id that is not there is reported as an error.
delete_user_strict(us, user_id) ==
    IF HasId(us, user_id)
    THEN [users |-> comprehension(us, user_id), ret |-> Deleted]
    ELSE [users |-> us, ret |-> NotFound]

\* users = [user for user in users if user.id != user_id]
\* return {"message": "User deleted"}
delete_user(us, user_id) ==
    [users |-> comprehension(us, user_id), ret |-> Deleted]

\* ------------------------------------------------------ sequential state
VARIABLES
    users,      \* the module-level list `users`
    last,       \* the request served last: handler, arguments, the list it
                \* found, the value it returned, and which request (handler
                \* and path id) was served before it
    deleted,    \* ids deleted and not created again since
    \* -- the same program as SpecConc sees it: objects and references
    g_users,    \* the list object the global name `users` is bound to
    lists,      \* list objects: list id -> sequence of User object ids
    objs,       \* User objects: object id -> its fields
    thr,        \* per worker thread: its request and the handler's frame
    initial     \* contents of `users` when the threads started

seqVars == <<users, last, deleted>>
concVars == <<g_users, lists, objs, thr, initial>>
vars == <<users, last, deleted, g_users, lists, objs, thr, initial>>

Threads == 1..NThreads

\* A worker thread that has not been handed a request.
Idle == [op |-> "idle", user_id |-> 0, user |-> [none |-> TRUE], pc |-> "idle",
         lst |-> 0, it |-> 0, acc |-> <<>>, cur |-> 0, ret |-> [none |-> TRUE]]

\* Heap before any request: users: List[User] = []
EmptyHeap ==
    /\ g_users = 0
    /\ lists = (0 :> <<>>)
    /\ objs = <<>>
    /\ thr = [t \in Threads |-> Idle]
    /\ initial = <<>>

NoUser == [none |-> TRUE]
NoPrev == [op |-> "none", user_id |-> 0]

Brief(l) == [op |-> l.op, user_id |-> l.user_id]

\* users: List[User] = []
Init ==
    /\ users = <<>>
    /\ last = [op |-> "start", user_id |-> 0, user |-> NoUser,
               pre |-> <<>>, ret |-> NoUser, prev |-> NoPrev]
    /\ deleted = {}
    /\ EmptyHeap

\* POST /users/
CreateUser ==
    \E user \in User :
        /\ Len(users) < MaxLen
        /\ LET r == create_user(users, user) IN
           /\ users' = r.users
           /\ last' = [op |-> "create", user_id |-> 0, user |-> user,
                       pre |-> users, ret |-> r.ret, prev |-> Brief(last)]
        /\ deleted' = deleted \ {user.id}
        /\ UNCHANGED concVars

\* GET /users/
ReadUsers ==
    LET r == read_users(users) IN
    /\ users' = r.users
    /\ last' = [op |-> "list", user_id |-> 0, user |-> NoUser,
                pre |-> users, ret |-> r.ret, prev |-> Brief(last)]
    /\ UNCHANGED <<deleted, concVars>>

\* GET /users/{user_id}
ReadUser ==
    \E user_id \in Ids :
        LET r == read_user(users, user_id) IN
        /\ users' = r.users
        /\ last' = [op |-> "get", user_id |-> user_id, user |-> NoUser,
                    pre |-> users, ret |-> r.ret, prev |-> Brief(last)]
        /\ UNCHANGED <<deleted, concVars>>

\* PUT /users/{user_id}
UpdateUser ==
    \E user_id \in Ids, updated_user \in User :
        LET r == update_user(users, user_id, updated_user) IN
        /\ users' = r.users
        /\ last' = [op |-> "update", user_id |-> user_id,
                    user |-> updated_user,
                    pre |-> users, ret |-> r.ret, prev |-> Brief(last)]
        /\ UNCHANGED <<deleted, concVars>>

\* DELETE /users/{user_id}
DeleteUser ==
    \E user_id \in Ids :
        LET r == delete_user(users, user_id) IN
        /\ users' = r.users
        /\ last' = [op |-> "delete", user_id |-> user_id, user |-> NoUser,
                    pre |-> users, ret |-> r.ret, prev |-> Brief(last)]
        /\ deleted' = deleted \cup {user_id}
        /\ UNCHANGED concVars

Next ==
    \/ CreateUser
    \/ ReadUsers
    \/ ReadUser
    \/ UpdateUser
    \/ DeleteUser

Spec == Init /\ [][Next]_vars

\* ------------------------------------------------- concurrent handlers
\* FastAPI runs `def` handlers on a pool of worker threads.  A handler's
\* frame holds the list object it loaded from the global (lst), the position
\* of its list iterator (it), the loop variable `user` (cur), and - in
\* delete_user - the list the comprehension is building (acc).

\* Lists of length at most MaxInitLen that earlier requests can have left.
InitStores == UNION {[1..n -> User] : n \in 0..MaxInitLen}

\* Object id of the User built from thread t's request body.
BodyObj(t) == MaxInitLen + t

\* The contents of `users` as a reader sees it now.
Store == [k \in 1..Len(lists[g_users]) |-> objs[lists[g_users][k]]]

InitConc ==
    /\ users = <<>>
    /\ last = [op |-> "start", user_id |-> 0, user |-> NoUser,
               pre |-> <<>>, ret |-> NoUser, prev |-> NoPrev]
    /\ deleted = {}
    /\ \E s \in InitStores :
        /\ initial = s
        /\ objs = s
        /\ lists = (0 :> [k \in 1..Len(s) |-> k])
    /\ g_users = 0
    /\ thr = [t \in Threads |-> Idle]

Frame(op, user_id, user, pc) ==
    [op |-> op, user_id |-> user_id, user |-> user, pc |-> pc,
     lst |-> 0, it |-> 0, acc |-> <<>>, cur |-> 0, ret |-> [none |-> TRUE]]

Return(f, v) ==
    [f EXCEPT !.pc = "done", !.lst = 0, !.it = 0, !.acc = <<>>, !.cur = 0,
              !.ret = v]

\* POST /users/ arrives: the body is parsed into a new User object
AcceptCreate(t) ==
    /\ thr[t].pc = "idle"
    /\ \E user \in User :
        /\ thr' = [thr EXCEPT ![t] = Frame("create", 0, user, "c_load")]
        /\ objs' = objs @@ (BodyObj(t) :> user)
    /\ UNCHANGED <<g_users, lists, initial, seqVars>>

\* PUT /users/{user_id} arrives
AcceptUpdate(t) ==
    /\ thr[t].pc = "idle"
    /\ \E user_id \in Ids, updated_user \in User :
        thr' = [thr EXCEPT ![t] = Frame("update", user_id, updated_user, "u_load")]
    /\ UNCHANGED <<g_users, lists, objs, initial, seqVars>>

\* DELETE /users/{user_id} arrives
AcceptDelete(t) ==
    /\ thr[t].pc = "idle"
    /\ \E user_id \in Ids :
        thr' = [thr EXCEPT ![t] = Frame("delete", user_id, NoUser, "d_load")]
    /\ UNCHANGED <<g_users, lists, objs, initial, seqVars>>

\* create_user: `users` in users.append(user) - the global is read
CreateLoad(t) ==
    /\ thr[t].pc = "c_load"
    /\ thr' = [thr EXCEPT ![t].lst = g_users, ![t].pc = "c_append"]
    /\ UNCHANGED <<g_users, lists, objs, initial, seqVars>>

\* create_user: .append(user) on the list that was read; return user
CreateAppend(t) ==
    /\ thr[t].pc = "c_append"
    /\ lists' = [lists EXCEPT ![thr[t].lst] = Append(@, BodyObj(t))]
    /\ thr' = [thr EXCEPT ![t] = Return(@, [obj |-> BodyObj(t)])]
    /\ UNCHANGED <<g_users, objs, initial, seqVars>>

\* update_user: `for user in users` - the global is read, an iterator made
UpdateLoad(t) ==
    /\ thr[t].pc = "u_load"
    /\ thr' = [thr EXCEPT ![t].lst = g_users, ![t].it = 0, ![t].pc = "u_iter"]
    /\ UNCHANGED <<g_users, lists, objs, initial, seqVars>>

\* update_user: one turn of the loop: next element, `if user.id == user_id`;
\* when the iterator is exhausted: return {"error": "User not found"}
UpdateIter(t) ==
    /\ thr[t].pc = "u_iter"
    /\ LET f == thr[t]
           l == lists[f.lst]
       IN IF f.it < Len(l)
          THEN LET o == l[f.it + 1] IN
               IF objs[o].id = f.user_id
               THEN thr' = [thr EXCEPT ![t].cur = o, ![t].it = f.it + 1,
                                       ![t].pc = "u_name"]
               ELSE thr' = [thr EXCEPT ![t].it = f.it + 1]
          ELSE thr' = [thr EXCEPT ![t] = Return(@, NotFound)]
    /\ UNCHANGED <<g_users, lists, objs, initial, seqVars>>

\* update_user: user.name = updated_user.name
UpdateName(t) ==
    /\ thr[t].pc = "u_name"
    /\ objs' = [objs EXCEPT ![thr[t].cur].name = thr[t].user.name]
    /\ thr' = [thr EXCEPT ![t].pc = "u_age"]
    /\ UNCHANGED <<g_users, lists, initial, seqVars>>

\* update_user: user.age = updated_user.age; return user
UpdateAge(t) ==
    /\ thr[t].pc = "u_age"
    /\ objs' = [objs EXCEPT ![thr[t].cur].age = thr[t].user.age]
    /\ thr' = [thr EXCEPT ![t] = Return(@, [obj |-> thr[t].cur])]
    /\ UNCHANGED <<g_users, lists, initial, seqVars>>

\* delete_user: `for user in users` of the comprehension - the global is
\* read, an iterator made, the result list started
DeleteLoad(t) ==
    /\ thr[t].pc = "d_load"
    /\ thr' = [thr EXCEPT ![t].lst = g_users, ![t].it = 0, ![t].acc = <<>>,
                          ![t].pc = "d_iter"]
    /\ UNCHANGED <<g_users, lists, objs, initial, seqVars>>

\* delete_user: one turn of the comprehension: next element, kept
\* `if user.id != user_id`; when the iterator is exhausted the list is done
DeleteIter(t) ==
    /\ thr[t].pc = "d_iter"
    /\ LET f == thr[t]
           l == lists[f.lst]
       IN IF f.it < Len(l)
          THEN LET o == l[f.it + 1] IN
               IF objs[o].id # f.user_id
               THEN thr' = [thr EXCEPT ![t].it = f.it + 1,
                                       ![t].acc = Append(f.acc, o)]
               ELSE thr' = [thr EXCEPT ![t].it = f.it + 1]
          ELSE thr' = [thr EXCEPT ![t].pc = "d_store"]
    /\ UNCHANGED <<g_users, lists, objs, initial, seqVars>>

\* delete_user: users = <the new list>; return {"message": "User deleted"}
\* The new list object is named after the thread that built it.
DeleteStore(t) ==
    /\ thr[t].pc = "d_store"
    /\ lists' = lists @@ (t :> thr[t].acc)
    /\ g_users' = t
    /\ thr' = [thr EXCEPT ![t] = Return(@, Deleted)]
    /\ UNCHANGED <<objs, initial, seqVars>>

NextConc ==
    \E t \in Threads :
        \/ AcceptCreate(t)
        \/ AcceptUpdate(t)
        \/ AcceptDelete(t)
        \/ CreateLoad(t)
        \/ CreateAppend(t)
        \/ UpdateLoad(t)
        \/ UpdateIter(t)
        \/ UpdateName(t)
        \/ UpdateAge(t)
        \/ DeleteLoad(t)
        \/ DeleteIter(t)
        \/ DeleteStore(t)

SpecConc == InitConc /\ [][NextConc]_vars

\* The request of a finished thread, applied by the handler run on its own.
Apply(us, f) ==
    CASE f.op = "create" -> create_user(us, f.user).users
      [] f.op = "update" -> update_user(us, f.user_id, f.user).users
      [] f.op = "delete" -> delete_user(us, f.user_id).users

\* Contents of `users` after the requests of the threads T, served one at a
\* time in some order, starting from us.
RECURSIVE SerialStores(_, _)
SerialStores(us, T) ==
    IF T = {} THEN {us}
    ELSE UNION {SerialStores(Apply(us, thr[t]), T \ {t}) : t \in T}

AllDone == \A t \in Threads : thr[t].pc = "done"

\* ------------------------------------------------------------ properties
\* Position of the first element of us with id i (insertion order).
FirstIndex(us, i) ==
    CHOOSE k \in 1..Len(us) : us[k].id = i /\ \A j \in 1..(k - 1) : us[j].id # i

\* Positions of us whose element has an id other than i.
Kept(us, i) == {k \in 1..Len(us) : us[k].id # i}

\* The n-th smallest member of the set of positions P.
Nth(P, n) == CHOOSE x \in P : Cardinality({y \in P : y <= x}) = n

\* The elements of us with an id other than i, in the order they have in us.
Without(us, i) ==
    [n \in 1..Cardinality(Kept(us, i)) |-> us[Nth(Kept(us, i), n)]]

\* C1: create(r) leaves the list it found with r appended as the last
\* element - one longer, every earlier element in place - and returns r,
\* whether or not the list already held an element with r's id.
C1_CreateAppends ==
    last.op = "create" =>
        /\ Len(users) = Len(last.pre) + 1
        /\ \A k \in 1..Len(last.pre) : users[k] = last.pre[k]
        /\ users[Len(users)] = last.user
        /\ last.ret = last.user

\* A create of an id the list already held, after which both are there.
C1_Witness ==
    /\ last.op = "create"
    /\ HasId(last.pre, last.user.id)
    /\ Len(users) = Len(last.pre) + 1
    /\ users[Len(users)] = last.user

\* C2: get-by-id(i) of an id that is in the list returns the element at the
\* lowest position with that id, never a later duplicate, and leaves the
\* list as it was.
C2_GetReturnsFirst ==
    (last.op = "get" /\ HasId(last.pre, last.user_id)) =>
        /\ \E k \in 1..Len(last.pre) :
              /\ last.pre[k].id = last.user_id
              /\ \A j \in 1..(k - 1) : last.pre[j].id # last.user_id
              /\ last.ret = last.pre[k]
        /\ users = last.pre

\* A get of an id held twice with different fields: the earlier one came back.
C2_Witness ==
    /\ last.op = "get"
    /\ \E j, k \in 1..Len(users) :
          /\ j < k
          /\ users[j].id = last.user_id
          /\ users[k].id = last.user_id
          /\ users[j] # users[k]
          /\ last.ret = users[j]

\* C3: update-by-id(i, body) of an id that is in the list changes only the
\* first element with id i: its name and age become the body's, its id
\* stays i whatever body.id is; the length, the order, the ids and every
\* other element (later elements with id i too) stay, and the updated
\* element is returned.
C3_UpdateFirstOnly ==
    (last.op = "update" /\ HasId(last.pre, last.user_id)) =>
        LET k == FirstIndex(last.pre, last.user_id) IN
        /\ Len(users) = Len(last.pre)
        /\ users[k] = [id |-> last.user_id, name |-> last.user.name,
                       age |-> last.user.age]
        /\ \A j \in 1..Len(users) : users[j].id = last.pre[j].id
        /\ \A j \in 1..Len(users) : j # k => users[j] = last.pre[j]
        /\ last.ret = users[k]

\* An update whose body carries another id and new name and age, of an id
\* the list holds twice: the second one kept its fields.
C3_Witness ==
    /\ last.op = "update"
    /\ last.user.id # last.user_id
    /\ \E j, k \in 1..Len(users) :
          /\ j < k
          /\ last.pre[j].id = last.user_id
          /\ last.pre[k].id = last.user_id
          /\ last.pre[j].name # last.user.name
          /\ last.pre[j].age # last.user.age
          /\ users[j].name = last.user.name
          /\ users[j].age = last.user.age
          /\ users[k] # users[j]

\* C4: delete-by-id(i) leaves exactly the elements whose id is not i, each
\* unchanged and in the order they had; every element with id i is gone.
C4_DeleteFilters ==
    last.op = "delete" =>
        /\ users = Without(last.pre, last.user_id)
        /\ ~HasId(users, last.user_id)

\* A delete that removed two elements and kept one that stood between them.
C4_Witness ==
    /\ last.op = "delete"
    /\ Len(last.pre) = 3
    /\ last.pre[1].id = last.user_id
    /\ last.pre[2].id # last.user_id
    /\ last.pre[3].id = last.user_id
    /\ users = <<last.pre[2]>>

\* C5: on a list with no element of id i (the empty list too), get-by-id(i)
\* and update-by-id(i, body) return the not-found value, which does not
\* have the shape of a User, and leave the list as it was.
C5_NotFound ==
    (last.op \in {"get", "update"} /\ ~HasId(last.pre, last.user_id)) =>
        /\ last.ret = NotFound
        /\ ~IsRecord(last.ret)
        /\ last.ret \notin User
        /\ users = last.pre

\* An update of an id missing from a list that holds another id, right
\* after a get of the same missing id.
C5_Witness ==
    /\ last.op = "update"
    /\ last.prev = [op |-> "get", user_id |-> last.user_id]
    /\ users # <<>>
    /\ ~HasId(users, last.user_id)
    /\ last.ret = NotFound

\* C6: a get-by-id(r.id) served right after create(r) found no element with
\* r.id returns a value equal to r in id, name and age.
C6_RoundTrip ==
    [][(/\ last.op = "create"
        /\ ~HasId(last.pre, last.user.id)
        /\ last'.op = "get"
        /\ last'.user_id = last.user.id)
       => (/\ last'.ret = last.user
           /\ last'.ret.id = last.user.id
           /\ last'.ret.name = last.user.name
           /\ last'.ret.age = last.user.age)]_vars

\* A get served right after a create, of the id of the element just
\* appended, which no earlier element has; it returned that element.
C6_Witness ==
    /\ last.op = "get"
    /\ last.prev.op = "create"
    /\ Len(users) >= 2
    /\ last.user_id = users[Len(users)].id
    /\ \A k \in 1..(Len(users) - 1) : users[k].id # last.user_id
    /\ last.ret = users[Len(users)]

\* C7: delete-by-id(i) returns {"message": "User deleted"} whether or not
\* an element matched; on a list with no element of id i it leaves the
\* contents as they were; served twice in a row it leaves the list the
\* first one left.
C7_DeleteIdempotent ==
    [][(/\ last'.op = "delete" => last'.ret = Deleted
        /\ (last'.op = "delete" /\ ~HasId(users, last'.user_id))
              => users' = users
        /\ (last.op = "delete" /\ last'.op = "delete"
                /\ last'.user_id = last.user_id)
              => users' = users)]_vars

\* The second of two deletes of one id in a row, the list still not empty.
C7_Witness ==
    /\ last.op = "delete"
    /\ last.prev = [op |-> "delete", user_id |-> last.user_id]
    /\ users # <<>>
    /\ users = last.pre
    /\ last.ret = Deleted

\* C8: list returns the whole current list in insertion order, the empty
\* sequence on an empty list, and leaves the list as it was.
C8_ListReturnsStore ==
    last.op = "list" =>
        /\ last.ret = users
        /\ users = last.pre
        /\ Len(last.ret) = Len(last.pre)
        /\ \A k \in 1..Len(last.pre) : last.ret[k] = last.pre[k]
        /\ (last.pre = <<>> => last.ret = <<>>)

\* A list served right after a create made the list ids 1, 2, 1 long.
C8_Witness ==
    /\ last.op = "list"
    /\ last.prev.op = "create"
    /\ Len(last.ret) = 3
    /\ last.ret[1].id = 1
    /\ last.ret[2].id = 2
    /\ last.ret[3].id = 1
    /\ last.ret[1] # last.ret[3]

\* C9: under every interleaving of create, update and delete handlers the
\* final list is the one some serial order of the same requests leaves; in
\* particular a created element whose id no delete names is in it.
C9_Serializable ==
    AllDone =>
        /\ Store \in SerialStores(initial, Threads)
        /\ \A t \in Threads :
              (/\ thr[t].op = "create"
               /\ \A d \in Threads :
                     thr[d].op = "delete" => thr[d].user_id # thr[t].user.id)
              => \E k \in 1..Len(Store) : Store[k] = thr[t].user

\* C10: from the end of delete-by-id(i) until the next create of id i the
\* list holds no element with id i, get-by-id(i) and update-by-id(i, body)
\* return the not-found value, and neither brings such an element back.
C10_DeletedStaysGone ==
    \A i \in deleted :
        /\ ~HasId(users, i)
        /\ (last.op \in {"get", "update"} /\ last.user_id = i)
              => (last.ret = NotFound /\ users = last.pre)

\* An update of a deleted id, with a body of that id, right after a get of
\* it, on a list that still holds another element.
C10_Witness ==
    /\ last.op = "update"
    /\ last.user_id \in deleted
    /\ last.user.id = last.user_id
    /\ last.prev = [op |-> "get", user_id |-> last.user_id]
    /\ users # <<>>

TypeOK ==
    /\ users \in Seq(User)
    /\ Len(users) <= MaxLen
    /\ deleted \subseteq Ids

====
